---- MODULE Spec2Model ----
(***************************************************************************)
(* A model of movietime_mcp/scraper.py: the three entry operations         *)
(* get_showtimes, get_theater_showtimes and get_movie_details, the helpers *)
(* they call, and the remote source as their environment.                  *)
(*                                                                         *)
(* Text is a sequence of atoms.  An atom is one character ("a", "7", "-",  *)
(* " ", ",", "/", "|") or one fixed word the code tests for as a whole     *)
(* ("https://www.", "fandango.com", "theater-page", "movie-overview",      *)
(* "movie-times", "?date=", "Movie Showtimes").  The letters of sample     *)
(* slugs ("x", "y", "X", "Y") occur in none of these words, so a substring *)
(* test on atoms decides as the test on characters does.  Dictionaries are *)
(* functions from keys to values; a missing key is a key outside DOMAIN.   *)
(***************************************************************************)
EXTENDS Integers, Sequences, FiniteSets, TLC

VARIABLES
    pc,         \* position of the running invocation
    op,         \* the entry operation invoked ("none" when idle)
    arg,        \* its arguments, as the caller gave them
    local,      \* its local variables (dt, params, url, html, result, ...)
    requests,   \* the remote requests issued by this invocation, in order
    replies,    \* what the remote source answered to each, in order
    outcome,    \* "pending", "returned" or "raised"
    result      \* the returned object (None until it returns)

vars == <<pc, op, arg, local, requests, replies, outcome, result>>

(***************************************************************************)
(* Bounds of the model.                                                    *)
(***************************************************************************)
MaxPage == 2          \* page numbers 1..MaxPage
MaxTheaters == 2      \* theaters in one API payload
MaxVariants == 2      \* variants of one movie
MaxLdBlocks == 2      \* linked-data blocks on one movie page

(***************************************************************************)
(* Values.                                                                 *)
(***************************************************************************)
\* Python's None (JSON's null) where a text is expected
None == <<"<None>">>

EmptyDict == [k \in {} |-> None]

\* dict.get(k, default)
Get(d, k, default) == IF k \in DOMAIN d THEN d[k] ELSE default

\* truth value of a text or None: None and "" are false
Truthy(v) == v # None /\ v # <<>>

\* JSON values whose type the code tests with isinstance
JDict(d) == [t |-> "dict", v |-> d]
JList(l) == [t |-> "list", v |-> l]
JStr(s) == [t |-> "str", v |-> s]
JNull == [t |-> "null", v |-> <<>>]
JNum == [t |-> "num", v |-> <<>>]

BoundedSeq(S, n) == UNION {[1..k -> S] : k \in 0..n}

(***************************************************************************)
(* Text helpers.                                                           *)
(***************************************************************************)
Digits == {"0", "1", "2", "3", "4", "5", "6", "7", "8", "9"}
DigitSeq == <<"0", "1", "2", "3", "4", "5", "6", "7", "8", "9">>
DigitVal(c) == (CHOOSE i \in 1..10 : DigitSeq[i] = c) - 1
IsDigit(c) == c \in Digits

Whitespace == {" "}

RECURSIVE LStrip(_)
LStrip(s) == IF s # <<>> /\ Head(s) \in Whitespace THEN LStrip(Tail(s)) ELSE s

RECURSIVE RStrip(_)
RStrip(s) ==
    IF s # <<>> /\ s[Len(s)] \in Whitespace
    THEN RStrip(SubSeq(s, 1, Len(s) - 1)) ELSE s

\* str.strip()
Strip(s) == RStrip(LStrip(s))

\* str.rstrip("/")
RECURSIVE RStripSlash(_)
RStripSlash(s) ==
    IF s # <<>> /\ s[Len(s)] = "/"
    THEN RStripSlash(SubSeq(s, 1, Len(s) - 1)) ELSE s

\* needle in hay (substring)
Contains(hay, needle) ==
    \E i \in 1..(Len(hay) - Len(needle) + 1) :
        SubSeq(hay, i, i + Len(needle) - 1) = needle

EndsWith(s, suffix) ==
    /\ Len(s) >= Len(suffix)
    /\ SubSeq(s, Len(s) - Len(suffix) + 1, Len(s)) = suffix

\* index of the first occurrence of atom a in s, 0 when there is none
FirstIndex(s, a) ==
    IF \E i \in 1..Len(s) : s[i] = a
    THEN CHOOSE i \in 1..Len(s) : s[i] = a /\ \A j \in 1..(i - 1) : s[j] # a
    ELSE 0

LowerAtom(a) ==
    CASE a = "X" -> "x"
      [] a = "Y" -> "y"
      [] OTHER -> a

\* str.lower()
Lower(s) == [i \in 1..Len(s) |-> LowerAtom(s[i])]

(***************************************************************************)
(* Constants of the program.                                               *)
(***************************************************************************)
FANDANGO_BASE == <<"https://www.", "fandango.com">>
FANDANGO_API == FANDANGO_BASE \o <<"/", "napi", "/", "theaterswithshowtimes">>

\* date.today().isoformat(): the clock is the environment's; one day is modelled
Today == <<"2", "0", "2", "6", "-", "1", "1", "-", "0", "2">>

_today_str == Today

(***************************************************************************)
(* _validate_date: datetime.strptime(dt, "%Y-%m-%d").  strptime compiles   *)
(* the format to the regular expression                                    *)
(*   (\d\d\d\d)-(1[0-2]|0[1-9]|[1-9])-(3[01]|[12]\d|0[1-9]|[1-9]| [1-9])   *)
(* matches it at the start of the text, raises ValueError when text        *)
(* remains after the match, and then builds the date, which raises         *)
(* ValueError when the day does not exist in that month.                   *)
(***************************************************************************)
At(s, i) == IF i \in 1..Len(s) THEN s[i] ELSE "<eos>"

NonZeroDigits == Digits \ {"0"}

\* length matched by the month alternatives at position p (0: no match);
\* the "-" that follows is part of the match, so a failed "-" backtracks
\* into the next alternative
MonthLen(s, p) ==
    IF At(s, p) = "1" /\ At(s, p + 1) \in {"0", "1", "2"} /\ At(s, p + 2) = "-" THEN 2
    ELSE IF At(s, p) = "0" /\ At(s, p + 1) \in NonZeroDigits /\ At(s, p + 2) = "-" THEN 2
    ELSE IF At(s, p) \in NonZeroDigits /\ At(s, p + 1) = "-" THEN 1
    ELSE 0

\* length matched by the day alternatives at position p (0: no match)
DayLen(s, p) ==
    IF At(s, p) = "3" /\ At(s, p + 1) \in {"0", "1"} THEN 2
    ELSE IF At(s, p) \in {"1", "2"} /\ At(s, p + 1) \in Digits THEN 2
    ELSE IF At(s, p) = "0" /\ At(s, p + 1) \in NonZeroDigits THEN 2
    ELSE IF At(s, p) \in NonZeroDigits THEN 1
    ELSE IF At(s, p) = " " /\ At(s, p + 1) \in NonZeroDigits THEN 2
    ELSE 0

RECURSIVE NumVal(_)
NumVal(s) ==
    IF s = <<>> THEN 0
    ELSE IF s[Len(s)] = " " THEN NumVal(SubSeq(s, 1, Len(s) - 1))
    ELSE IF Head(s) = " " THEN NumVal(Tail(s))
    ELSE 10 * NumVal(SubSeq(s, 1, Len(s) - 1)) + DigitVal(s[Len(s)])

IsLeap(y) == (y % 4 = 0 /\ y % 100 # 0) \/ y % 400 = 0

DaysInMonth(y, m) ==
    IF m = 2 THEN (IF IsLeap(y) THEN 29 ELSE 28)
    ELSE IF m \in {4, 6, 9, 11} THEN 30
    ELSE 31

\* TRUE when strptime(dt, "%Y-%m-%d") returns, FALSE when it raises ValueError
StrptimeOk(s) ==
    /\ \A i \in 1..4 : IsDigit(At(s, i))
    /\ At(s, 5) = "-"
    /\ MonthLen(s, 6) > 0
    /\ LET ml == MonthLen(s, 6)
           dp == 6 + ml + 1
           dl == DayLen(s, dp)
       IN /\ dl > 0
          /\ dp + dl - 1 = Len(s)
          /\ LET y == NumVal(SubSeq(s, 1, 4))
                 m == NumVal(SubSeq(s, 6, 6 + ml - 1))
                 d == NumVal(SubSeq(s, dp, dp + dl - 1))
             IN y >= 1 /\ d <= DaysInMonth(y, m)

_validate_date(dt) ==
    IF ~Truthy(dt) THEN _today_str
    ELSE IF StrptimeOk(dt) THEN dt
    ELSE _today_str

(***************************************************************************)
(* _parse_location.                                                        *)
(***************************************************************************)
\* re.match(r"^\d{5}(-\d{4})?$", location), location already stripped
ZipPattern(s) ==
    \/ Len(s) = 5 /\ \A i \in 1..5 : IsDigit(s[i])
    \/ /\ Len(s) = 10
       /\ \A i \in 1..5 : IsDigit(s[i])
       /\ s[6] = "-"
       /\ \A i \in 7..10 : IsDigit(s[i])

\* a variant that splits at the last comma
_parse_location_lastcomma(location) ==
    LET loc == Strip(location) IN
    IF ZipPattern(loc) THEN [zipCode |-> loc]
    ELSE IF Contains(loc, <<",">>) THEN
        LET c == CHOOSE i \in 1..Len(loc) :
                    loc[i] = "," /\ \A j \in (i + 1)..Len(loc) : loc[j] # ","
        IN [city |-> Strip(SubSeq(loc, 1, c - 1)),
            state |-> Strip(SubSeq(loc, c + 1, Len(loc)))]
    ELSE [city |-> loc, state |-> <<>>]

_parse_location(location) ==
    LET loc == Strip(location) IN
    IF ZipPattern(loc) THEN [zipCode |-> loc]
    ELSE IF Contains(loc, <<",">>) THEN
        LET c == FirstIndex(loc, ",")
        IN [city |-> Strip(SubSeq(loc, 1, c - 1)),
            state |-> Strip(SubSeq(loc, c + 1, Len(loc)))]
    ELSE [city |-> loc, state |-> <<>>]

(***************************************************************************)
(* Showtime simplification.  Of the keys the code copies with a plain      *)
(* dict.get, the model keeps those the results are told apart by.          *)
(***************************************************************************)
_simplify_showtime(st) ==
    [time |-> IF "ticketingDate" \in DOMAIN st /\ st["ticketingDate"].t = "dict"
              THEN Get(st["ticketingDate"].v, "localTime", <<>>)
              ELSE Get(st, "dateTime", <<>>),
     format |-> Get(st, "formatStr", <<>>),
     ticket_url |-> IF Truthy(Get(st, "ticketingJumpPageURL", None))
                    THEN FANDANGO_BASE \o st["ticketingJumpPageURL"]
                    ELSE None,
     is_sold_out |-> Get(st, "isSoldOut", FALSE)]

\* the concatenation of the sequences of a sequence
RECURSIVE Flatten(_)
Flatten(ss) == IF ss = <<>> THEN <<>> ELSE Head(ss) \o Flatten(Tail(ss))

Standard == <<"Standard">>

_simplify_variant(variant) ==
    LET ags == Get(variant, "amenityGroups", <<>>)
        per == [i \in 1..Len(ags) |->
                  LET sts == Get(ags[i], "showtimes", <<>>)
                  IN [j \in 1..Len(sts) |-> _simplify_showtime(sts[j])]]
    IN [format |-> Get(variant, "filmFormatHeader", Standard),
        showtimes |-> Flatten(per)]

\* a variant that adds the format to every label
Label_always(v, st) == st.time \o <<" (">> \o v.format \o <<")">>

\* lines 157-159: the label of one simplified showtime st of the
\* simplified variant v
Label(v, st) ==
    IF Truthy(v.format) /\ v.format # Standard
    THEN st.time \o <<" (">> \o v.format \o <<")">>
    ELSE st.time

\* all_times of _simplify_movie
AllTimes(variants) ==
    Flatten([i \in 1..Len(variants) |->
                [j \in 1..Len(variants[i].showtimes) |->
                    Label(variants[i], variants[i].showtimes[j])]])

_simplify_movie(movie) ==
    LET raw == Get(movie, "variants", <<>>)
        variants == [i \in 1..Len(raw) |-> _simplify_variant(raw[i])]
    IN [id |-> Get(movie, "id", None),
        title |-> Get(movie, "title", <<"Unknown">>),
        fandango_url |-> IF Truthy(Get(movie, "mopURI", None))
                         THEN FANDANGO_BASE \o movie["mopURI"]
                         ELSE None,
        showtimes |-> AllTimes(variants),
        variants |-> variants]

_simplify_theater(theater) ==
    LET raw == Get(theater, "movies", <<>>)
        movies == [i \in 1..Len(raw) |-> _simplify_movie(raw[i])]
    IN [id |-> Get(theater, "id", None),
        name |-> Get(theater, "name", <<"Unknown Theater">>),
        address |-> Get(theater, "fullAddress", <<>>),
        fandango_url |-> IF Truthy(Get(theater, "theaterPageUrl", None))
                         THEN FANDANGO_BASE \o theater["theaterPageUrl"]
                         ELSE None,
        movie_count |-> Len(movies),
        movies |-> movies]

\* str(n) for n >= 0
RECURSIVE IntToStr(_)
IntToStr(n) ==
    IF n < 10 THEN <<DigitSeq[n + 1]>>
    ELSE IntToStr(n \div 10) \o <<DigitSeq[(n % 10) + 1]>>

\* a variant that leaves the status code out
HttpErrorMsg_nocode(code, reason) == <<"HTTP error: ">> \o reason

\* f"HTTP {e.response.status_code}: {e.response.reason_phrase}"
HttpErrorMsg(code, reason) == <<"HTTP ">> \o IntToStr(code) \o <<": ">> \o reason

\* f"Request failed: {e}"
RequestFailedMsg(message) == <<"Request failed: ">> \o message

(***************************************************************************)
(* The remote source: what one fetch can come back with.                   *)
(*   http_error       raise_for_status raised httpx.HTTPStatusError        *)
(*   transport_error  client.get raised an httpx.RequestError              *)
(*   ok               a 2xx response; for a JSON fetch, shape says what    *)
(*                    resp.json() makes of the body: "notjson" (it raises  *)
(*                    a decoding error), "null", "emptylist", "list" (a    *)
(*                    non-empty array) or "dict" (then data is the object) *)
(***************************************************************************)
FetchFailures ==
    { [kind |-> "http_error", code |-> 404, reason |-> <<"Not Found">>,
       message |-> <<>>],
      [kind |-> "http_error", code |-> 500,
       reason |-> <<"Internal Server Error">>, message |-> <<>>],
      [kind |-> "transport_error", code |-> 0, reason |-> <<>>,
       message |-> <<"timed out">>] }

Failed(reply) == reply.kind # "ok"

\* the except clauses shared by the three entry operations
ErrorMessage(reply) ==
    IF reply.kind = "http_error" THEN HttpErrorMsg(reply.code, reply.reason)
    ELSE RequestFailedMsg(reply.message)

(***************************************************************************)
(* Sample API objects.                                                     *)
(***************************************************************************)
ST_nested ==
    ("ticketingDate" :> JDict("localTime" :> <<"7", "p">>)
     @@ "dateTime" :> <<"1", "9", "h">>
     @@ "ticketingJumpPageURL" :> <<"/", "t", "1">>)
ST_flat == ("dateTime" :> <<"8", "p">> @@ "formatStr" :> <<"IMAX">>)
ST_nolocal == ("ticketingDate" :> JDict(EmptyDict) @@ "dateTime" :> <<"9", "p">>)
ST_nulldate == ("ticketingDate" :> JNull @@ "dateTime" :> <<"6", "p">>
                @@ "isSoldOut" :> TRUE)
ST_bare == ("formatStr" :> <<"Standard">>)

AG_two == ("showtimes" :> <<ST_nested, ST_flat>>)
AG_one == ("showtimes" :> <<ST_nolocal>>)
AG_rest == ("showtimes" :> <<ST_nulldate, ST_bare>>)
AG_none == [k \in {"name"} |-> <<"recliners">>]

SampleVariants ==
    { ("filmFormatHeader" :> Standard @@ "amenityGroups" :> <<AG_two, AG_one>>),
      ("filmFormatHeader" :> <<"IMAX">> @@ "amenityGroups" :> <<AG_one, AG_rest>>),
      ("filmFormatHeader" :> <<>> @@ "amenityGroups" :> <<AG_two>>),
      [k \in {"amenityGroups"} |-> <<AG_none, AG_two>>],
      [k \in {"filmFormatHeader"} |-> <<"3D">>] }

SampleMovies ==
    { ("id" :> <<"m", "1">> @@ "title" :> <<"Dune">> @@ "mopURI" :> <<"/", "dune">>
       @@ "variants" :> vs) : vs \in BoundedSeq(SampleVariants, MaxVariants) }
    \cup { [k \in {"id"} |-> <<"m", "2">>] }

M_dune ==
    ("id" :> <<"m", "1">> @@ "title" :> <<"Dune">>
     @@ "variants" :> << ("filmFormatHeader" :> <<"IMAX">>
                          @@ "amenityGroups" :> <<AG_two>>) >>)

TH_y ==
    ("id" :> <<"t", "1">> @@ "name" :> <<"Roxy">>
     @@ "theaterPageUrl" :> <<"/", "y", "/", "theater-page">>
     @@ "movies" :> <<M_dune>>)
TH_x7 ==
    ("id" :> <<"t", "2">> @@ "name" :> <<"AMC">>
     @@ "theaterPageUrl" :> <<"/", "x", "-", "7", "/", "theater-page">>
     @@ "fullAddress" :> <<"1 Main St">>)
TH_x ==
    ("id" :> <<"t", "3">>
     @@ "theaterPageUrl" :> <<"/", "X", "/", "theater-page">>)
TH_nourl == ("id" :> <<"t", "4">> @@ "name" :> <<"Bijou">>)

SampleTheaters == {TH_y, TH_x7, TH_x, TH_nourl}

TheaterLists == BoundedSeq(SampleTheaters, MaxTheaters)

Pagination == [k \in {"totalPages"} |-> 3]

\* the objects a JSON body can decode to
JsonObjects ==
    { EmptyDict,
      [k \in {"pagination"} |-> Pagination] }
    \cup { [k \in {"theaters"} |-> ts] : ts \in TheaterLists }
    \cup { ("theaters" :> ts @@ "pagination" :> Pagination) :
              ts \in TheaterLists \ {<<>>} }
    \cup { ("theaters" :> ts @@ "pagination" :> EmptyDict) :
              ts \in {<<TH_y>>} }

JsonReplies ==
    { [kind |-> "ok", shape |-> sh, data |-> EmptyDict] :
        sh \in {"notjson", "null", "emptylist", "list"} }
    \cup { [kind |-> "ok", shape |-> "dict", data |-> d] : d \in JsonObjects }

(***************************************************************************)
(* HTML documents.  A document is its elements in document order, each     *)
(* with the one simple selector it matches, the JSON-style keys its raw    *)
(* text holds a 5-digit value for, and its linked-data script blocks in    *)
(* document order.                                                         *)
(***************************************************************************)
Element(sel, text) == [sel |-> sel, text |-> text, src |-> None, datasrc |-> None]

\* soup.select(group): the elements matching any selector of the group, in
\* document order
Select(elems, group) == SelectSeq(elems, LAMBDA e : e.sel \in group)

\* soup.select_one(group): the first of them; NoElement when there is none
NoElement == Element("<none>", <<>>)

SelectOne(elems, group) ==
    LET hits == Select(elems, {group[i] : i \in 1..Len(group)})
    IN IF hits = <<>> THEN NoElement ELSE Head(hits)

\* el.get_text(strip=True)
GetText(el) == Strip(el.text)

\* re.sub(r"\s*<word>.*$", "", name).strip(): cut at the first <word>
CutAt(name, word) ==
    IF FirstIndex(name, word) = 0 THEN Strip(name)
    ELSE Strip(SubSeq(name, 1, FirstIndex(name, word) - 1))

(***************************************************************************)
(* Sample arguments.                                                       *)
(***************************************************************************)
D5 == <<"1", "0", "0", "0", "1">>
D4 == <<"1", "2", "3", "4">>

LocationBodies ==
    { D5, D4, D5 \o <<"7">>,
      D5 \o <<"-">> \o D4,
      D5 \o <<"-">> \o <<"1", "2", "3">>,
      D5 \o <<"-">> \o D5,
      D5 \o <<"-">>,
      D5 \o <<" ">> \o D4,
      D5 \o <<"a">>,
      D5 \o <<",", "a">>,
      <<>>,
      <<"a">>,
      <<"a", " ", "b">>,
      <<"a", " ", ",", " ", " ", "b">>,
      <<"a", ",", "b", ",", "c">>,
      <<",">>,
      <<",", "b">> }

Locations ==
    LocationBodies \cup { <<" ">> \o b \o <<" ", " ">> : b \in LocationBodies }

Dt(y, m, d) == y \o <<"-">> \o m \o <<"-">> \o d
Y2026 == <<"2", "0", "2", "6">>
Y2024 == <<"2", "0", "2", "4">>

ValidDate == Dt(Y2026, <<"0", "1">>, <<"0", "5">>)

Dates ==
    { None, <<>>,
      ValidDate,
      Dt(Y2024, <<"0", "2">>, <<"2", "9">>),
      Dt(Y2026, <<"0", "2">>, <<"2", "9">>),
      Dt(Y2026, <<"1", "3">>, <<"4", "0">>),
      Dt(Y2026, <<"0", "4">>, <<"3", "1">>),
      Dt(Y2026, <<"1", "2">>, <<"3", "1">>),
      Dt(Y2026, <<"0", "0">>, <<"1", "0">>),
      Dt(Y2026, <<"1">>, <<"5">>),
      Dt(Y2026, <<"0", "1">>, <<" ", "5">>),
      Dt(Y2026, <<"0", "1">>, <<"0", "5", " ">>),
      Dt(<<"2", "6">>, <<"0", "1">>, <<"0", "5">>),
      Dt(<<"0", "0", "0", "0">>, <<"0", "1">>, <<"0", "5">>),
      <<"a", "b">> }

\* the forms a theater or movie identifier is given in
Slugs == { <<"x">>, <<"x", "-", "7">>, <<"Y">> }
Forms == {"slug", "slug+suffix", "path", "path+suffix", "url", "url+suffix"}
Decorations == {"plain", "slash", "spaces", "slash+spaces"}

MkId(form, slug, suffix, deco) ==
    LET core == CASE form = "slug" -> slug
                  [] form = "slug+suffix" -> slug \o suffix
                  [] form = "path" -> <<"/">> \o slug
                  [] form = "path+suffix" -> <<"/">> \o slug \o suffix
                  [] form = "url" -> <<"https://www.", "fandango.com", "/">> \o slug
                  [] form = "url+suffix" ->
                        <<"https://www.", "fandango.com", "/">> \o slug \o suffix
    IN CASE deco = "plain" -> core
         [] deco = "slash" -> core \o <<"/">>
         [] deco = "spaces" -> <<" ">> \o core \o <<" ", " ">>
         [] deco = "slash+spaces" -> <<" ">> \o core \o <<"/", " ">>

TheaterIds ==
    { MkId(f, sl, <<"/", "theater-page">>, d) :
        f \in Forms, sl \in Slugs, d \in Decorations }

TheaterArgs ==
    { <<id, ValidDate>> : id \in TheaterIds }
    \cup { <<<<"x">>, d>> : d \in {None, Dt(Y2026, <<"1">>, <<"5">>), <<"a", "b">>} }

Zip2 == <<"9", "0", "2", "1", "0">>

TheaterPages ==
    { [elems |-> << Element("title", <<" ", "Roxy", " ", "Movie Showtimes", " ",
                                       "|", " ", "Fandango">>) >>,
       keys |-> [k \in {"postalCode"} |-> D5], ld |-> <<>>],
      [elems |-> << Element("title", <<"Roxy", " ", "|", " ", "Fandango">>),
                    Element(".theaterDetailHeader__name", <<"Roxy", " ", "2">>),
                    Element("h1.subnav__title", <<"Roxy", " ", "1">>) >>,
       keys |-> ("zipCode" :> Zip2 @@ "zip" :> D5), ld |-> <<>>],
      [elems |-> << Element("title", <<"Movie Showtimes">>) >>,
       keys |-> [k \in {"zip"} |-> Zip2], ld |-> <<>>],
      [elems |-> << Element("title", <<"Roxy", " ", "|", " ", "Fandango">>) >>,
       keys |-> EmptyDict, ld |-> <<>>],
      [elems |-> <<>>, keys |-> EmptyDict, ld |-> <<>>] }

TheaterHtmlReplies == { [kind |-> "ok", page |-> p] : p \in TheaterPages }

MovieIds ==
    { MkId(f, <<"x", "-", "7">>, <<"/", "movie-overview">>, d) :
        f \in Forms, d \in Decorations }
    \cup { <<"/", "y", "/", "movie-times">>,
           <<"https://www.", "fandango.com", "/", "y", "/", "movie-times", "/">> }

Img(sel, src, datasrc) == [sel |-> sel, text |-> <<>>, src |-> src, datasrc |-> datasrc]

MovieElems ==
    { << Element("title", <<"Y", " ", "|", " ", "Fandango">>),
         Element("h1.subnav__title", <<" ", "Y", " ">>),
         Element(".movie-details__rating", <<"PG">>),
         Element(".movie-cast__director", <<"Sel Dir">>),
         Element(".movie-details__genre a", <<"Comedy">>),
         Element(".movie-cast__actor-name", <<"Ann">>),
         Element(".movie-details__cast a", <<"Bob">>),
         Img(".hero-image img", <<"p", "1">>, None) >>,
      << Element(".hero-text__title", <<"H">>),
         Element(".movie-details__title", <<"D">>),
         Element(".hero-text__runtime", <<"2h">>),
         Element(".js-mop-synopsis", <<"Sel Syn">>),
         Img(".movie-details__poster img", None, <<"p", "2">>) >>,
      <<>> }

Person(name) == JDict([k \in {"name"} |-> name])
Movie == [k \in {"@type"} |-> <<"Movie">>]

SampleLd ==
    { [shape |-> "badjson", d |-> EmptyDict],
      [shape |-> "dict", d |-> ("@type" :> <<"Organization">> @@ "name" :> <<"Org">>)],
      [shape |-> "dict",
       d |-> Movie @@ ("name" :> <<"X">>
                       @@ "genre" :> JList(<< <<"Action">>, <<"Drama">> >>))],
      [shape |-> "dict",
       d |-> Movie @@ ("name" :> <<"F">> @@ "description" :> <<"Ld Syn">>
                       @@ "duration" :> <<"PT2H">> @@ "contentRating" :> <<"R">>
                       @@ "genre" :> JStr(<<"Horror">>) @@ "image" :> <<"p", "3">>
                       @@ "datePublished" :> <<"2", "0", "2", "5">>
                       @@ "director" :> Person(<<"Ld Dir">>)
                       @@ "actor" :> JList(<<Person(<<"Cy">>), JStr(<<"Di">>),
                                             Person(<<"Ed">>)>>))],
      [shape |-> "dict",
       d |-> Movie @@ ("description" :> <<>>
                       @@ "director" :> JList(<<Person(<<"D1">>), Person(<<"D2">>)>>))],
      [shape |-> "dict",
       d |-> Movie @@ ("name" :> <<"T">> @@ "director" :> JStr(<<"Text Dir">>))],
      [shape |-> "dict",
       d |-> Movie @@ ("name" :> <<"Z">>
                       @@ "director" :> JList(<<Person(<<"D3">>), Person(None)>>)
                       @@ "actor" :> JList(<<Person(<<"Fo">>)>>))],
      [shape |-> "dict",
       d |-> Movie @@ ("name" :> <<"N">> @@ "director" :> Person(<<"D4">>)
                       @@ "actor" :> JNum)] }

MoviePages ==
    { [elems |-> e, keys |-> EmptyDict, ld |-> l] :
        e \in MovieElems, l \in BoundedSeq(SampleLd, MaxLdBlocks) }

MovieHtmlReplies == { [kind |-> "ok", page |-> p] : p \in MoviePages }

\* (location, date) pairs: every location with one date, every date with
\* one location; the code treats the two arguments independently
ShowtimesArgs ==
    { <<l, ValidDate>> : l \in Locations } \cup { <<D5, d>> : d \in Dates }

(***************************************************************************)
(* The state machine: one invocation at a time, nothing kept between       *)
(* invocations.                                                            *)
(***************************************************************************)
NoPage == [elems |-> <<>>, keys |-> EmptyDict, ld |-> <<>>]

LocalInit ==
    [dt |-> <<>>, params |-> EmptyDict, slug |-> <<>>, url |-> <<>>,
     html |-> NoPage, acc |-> EmptyDict, i |-> 0]

ArgInit ==
    [location |-> <<>>, date |-> None, page |-> 0, id |-> <<>>, x |-> EmptyDict]

Init ==
    /\ pc = "idle"
    /\ op = "none"
    /\ arg = ArgInit
    /\ local = LocalInit
    /\ requests = <<>>
    /\ replies = <<>>
    /\ outcome = "pending"
    /\ result = EmptyDict

JsonRequest(params) == [kind |-> "json", url |-> FANDANGO_API, params |-> params]
HtmlRequest(url) == [kind |-> "html", url |-> url, params |-> EmptyDict]

Return(value) ==
    /\ pc' = "done"
    /\ outcome' = "returned"
    /\ result' = value

\* an exception leaves the entry operation
Raise ==
    /\ pc' = "done"
    /\ outcome' = "raised"
    /\ result' = EmptyDict

(***************************************************************************)
(* get_showtimes.                                                          *)
(***************************************************************************)
ShowtimesParams(location, dt, page) ==
    _parse_location(location) @@ ("date" :> dt @@ "page" :> IntToStr(page))

\* lines 241-245: up to the call of _fetch_json
Call_get_showtimes(location, date, page) ==
    /\ pc = "idle"
    /\ pc' = "gs_fetch"
    /\ op' = "get_showtimes"
    /\ arg' = [ArgInit EXCEPT !.location = location, !.date = date, !.page = page]
    /\ LET dt == _validate_date(date)
           params == ShowtimesParams(location, dt, page)
       IN /\ local' = [LocalInit EXCEPT !.dt = dt, !.params = params]
          /\ requests' = Append(requests, JsonRequest(params))
    /\ UNCHANGED <<replies, outcome, result>>

\* a variant that echoes the trimmed location
NoResults_stripped(location, dt) ==
    ("location" :> Strip(location) @@ "date" :> dt @@ "theater_count" :> 0
     @@ "theaters" :> <<>>
     @@ "message" :> <<"No theaters or showtimes found for this location and date.">>)

\* lines 251-258
NoResults(location, dt) ==
    ("location" :> location @@ "date" :> dt @@ "theater_count" :> 0
     @@ "theaters" :> <<>>
     @@ "message" :> <<"No theaters or showtimes found for this location and date.">>)

ShowtimesResult(location, dt, page, data) ==
    LET theaters == [i \in 1..Len(data["theaters"]) |->
                        _simplify_theater(data["theaters"][i])]
    IN ("location" :> location @@ "date" :> dt @@ "page" :> page
        @@ "total_pages" :> Get(Get(data, "pagination", EmptyDict), "totalPages", 1)
        @@ "theater_count" :> Len(theaters)
        @@ "theaters" :> theaters)

\* "not data or not data.get('theaters')" for a decoded body that is falsy
\* or an object
NoTheaters(reply) ==
    \/ reply.shape \in {"null", "emptylist"}
    \/ /\ reply.shape = "dict"
       /\ Get(reply.data, "theaters", <<>>) = <<>>

\* a variant that tries the fetch once more after a failure
Reply_get_showtimes_retry(reply) ==
    /\ pc = "gs_fetch"
    /\ replies' = Append(replies, reply)
    /\ IF Failed(reply) /\ Len(requests) < 2
       THEN /\ requests' = Append(requests, JsonRequest(local.params))
            /\ UNCHANGED <<pc, outcome, result>>
       ELSE /\ IF Failed(reply) THEN Return([k \in {"error"} |-> ErrorMessage(reply)])
               ELSE Return(NoResults(arg.location, local.dt))
            /\ UNCHANGED requests
    /\ UNCHANGED <<op, arg, local>>

\* lines 245-270: _fetch_json comes back and the function runs to its end
Reply_get_showtimes(reply) ==
    /\ pc = "gs_fetch"
    /\ replies' = Append(replies, reply)
    /\ IF Failed(reply) THEN Return([k \in {"error"} |-> ErrorMessage(reply)])
       ELSE IF reply.shape = "notjson" THEN Raise
       ELSE IF NoTheaters(reply) THEN Return(NoResults(arg.location, local.dt))
       ELSE IF reply.shape = "list" THEN Raise
       ELSE Return(ShowtimesResult(arg.location, local.dt, arg.page, reply.data))
    /\ UNCHANGED <<op, arg, local, requests>>

(***************************************************************************)
(* get_theater_showtimes.                                                  *)
(***************************************************************************)
StartsWithHttp(s) == s # <<>> /\ s[1] \in {"https://www.", "http://"}

\* slug.split("fandango.com", 1)[-1]
AfterHost(s) ==
    IF FirstIndex(s, "fandango.com") = 0 THEN s
    ELSE SubSeq(s, FirstIndex(s, "fandango.com") + 1, Len(s))

TheaterSuffix == <<"/", "theater-page">>

\* a variant without strip() and rstrip("/")
NormalizeTheaterId_nostrip(theater_id) ==
    LET s1 == theater_id
        s2 == IF StartsWithHttp(s1) THEN AfterHost(s1) ELSE s1
        s3 == IF s2 # <<>> /\ s2[1] = "/" THEN s2 ELSE <<"/">> \o s2
    IN IF EndsWith(s3, TheaterSuffix) THEN s3 ELSE s3 \o TheaterSuffix

\* lines 303-310
NormalizeTheaterId(theater_id) ==
    LET s1 == RStripSlash(Strip(theater_id))
        s2 == IF StartsWithHttp(s1) THEN AfterHost(s1) ELSE s1
        s3 == IF s2 # <<>> /\ s2[1] = "/" THEN s2 ELSE <<"/">> \o s2
    IN IF EndsWith(s3, TheaterSuffix) THEN s3 ELSE s3 \o TheaterSuffix

\* line 312
TheaterUrl(slug, dt) == FANDANGO_BASE \o slug \o <<"?date=">> \o dt

\* lines 332-345: the record started from the page
TheaterPartial(page, url, dt) ==
    LET base == ("url" :> url @@ "date" :> dt)
        first == SelectOne(page.elems,
                           <<"h1.subnav__title", ".theaterDetailHeader__name">>)
        title_el == IF first = NoElement
                    THEN SelectOne(page.elems, <<"title">>) ELSE first
        name == CutAt(CutAt(GetText(title_el), "Movie Showtimes"), "|")
    IN IF title_el = NoElement THEN base
       ELSE base @@ ("name" :> IF name = <<>> THEN GetText(title_el) ELSE name)

\* lines 349-353: the three patterns in order; None when none matches
ZipMatch(page) ==
    IF "postalCode" \in DOMAIN page.keys THEN page.keys["postalCode"]
    ELSE IF "zipCode" \in DOMAIN page.keys THEN page.keys["zipCode"]
    ELSE IF "zip" \in DOMAIN page.keys THEN page.keys["zip"]
    ELSE None

\* lines 362-367
WithMessage(partial) ==
    partial @@ ("message" :>
        <<"Showtimes are loaded dynamically. Use get_showtimes with the theater's ZIP code to find showtimes.">>)

\* the character class [a-z0-9-] under re.IGNORECASE; the words of the
\* site's paths are runs of such characters
SlugAtoms ==
    Digits \cup {"a", "b", "c", "x", "y", "X", "Y", "-", "napi",
                 "theater-page", "movie-overview", "movie-times",
                 "theaterswithshowtimes"}

\* re.search(r"/([a-z0-9-]+)/theater-page", theater_url, re.IGNORECASE):
\* the leftmost "/" followed by a run of the class, "/" and "theater-page";
\* group(1).lower(), or "" when there is no match
TargetSlug(theater_url) ==
    LET Run(i, k) ==
            /\ theater_url[i] = "/"
            /\ k > i
            /\ \A j \in (i + 1)..k : theater_url[j] \in SlugAtoms
            /\ At(theater_url, k + 1) = "/"
            /\ At(theater_url, k + 2) = "theater-page"
        Starts == {i \in 1..Len(theater_url) :
                      \E k \in 1..Len(theater_url) : Run(i, k)}
    IN IF Starts = {} THEN <<>>
       ELSE LET i == CHOOSE a \in Starts : \A b \in Starts : a <= b
                k == CHOOSE c \in 1..Len(theater_url) : Run(i, c)
            IN Lower(SubSeq(theater_url, i + 1, k))

\* "target_slug and target_slug in t_slug" for one theater of the payload
SlugMatches(theater, target_slug) ==
    /\ target_slug # <<>>
    /\ Contains(Lower(IF Truthy(Get(theater, "theaterPageUrl", None))
                      THEN theater["theaterPageUrl"] ELSE <<>>),
                target_slug)

\* a variant that compares the theater's URL as it is written
SelectTheater_cased(theaters, theater_url) ==
    LET target_slug == TargetSlug(theater_url)
        Hit(i) == /\ target_slug # <<>>
                  /\ Contains(Get(theaters[i], "theaterPageUrl", <<>>), target_slug)
    IN IF \E i \in 1..Len(theaters) : Hit(i)
       THEN theaters[CHOOSE i \in 1..Len(theaters) :
                        Hit(i) /\ \A j \in 1..(i - 1) : ~Hit(j)]
       ELSE theaters[1]

\* lines 380-391: the theater of a non-empty list the loop returns, or the
\* first one
SelectTheater(theaters, theater_url) ==
    LET target_slug == TargetSlug(theater_url)
        Hit(i) == SlugMatches(theaters[i], target_slug)
    IN IF \E i \in 1..Len(theaters) : Hit(i)
       THEN theaters[CHOOSE i \in 1..Len(theaters) :
                        Hit(i) /\ \A j \in 1..(i - 1) : ~Hit(j)]
       ELSE theaters[1]

\* lines 300-315: up to the call of _fetch_html
Call_get_theater_showtimes(theater_id, date) ==
    /\ pc = "idle"
    /\ pc' = "ts_html"
    /\ op' = "get_theater_showtimes"
    /\ arg' = [ArgInit EXCEPT !.id = theater_id, !.date = date]
    /\ LET dt == _validate_date(date)
           slug == NormalizeTheaterId(theater_id)
           url == TheaterUrl(slug, dt)
       IN /\ local' = [LocalInit EXCEPT !.dt = dt, !.slug = slug, !.url = url]
          /\ requests' = Append(requests, HtmlRequest(url))
    /\ UNCHANGED <<replies, outcome, result>>

ZipParams(zip_code, dt) ==
    ("zipCode" :> zip_code @@ "date" :> dt @@ "page" :> <<"1">>)

\* lines 315-358: _fetch_html comes back; _parse_theater_page runs up to
\* the call of _fetch_json in _fetch_theater_via_api, or to its end
Reply_theater_html(reply) ==
    /\ pc = "ts_html"
    /\ replies' = Append(replies, reply)
    /\ IF Failed(reply)
       THEN /\ Return([k \in {"error"} |-> ErrorMessage(reply)])
            /\ UNCHANGED <<local, requests>>
       ELSE LET partial == TheaterPartial(reply.page, local.url, local.dt)
                zip_code == ZipMatch(reply.page)
            IN IF zip_code # None
               THEN /\ pc' = "ts_json"
                    /\ local' = [local EXCEPT !.html = reply.page, !.acc = partial]
                    /\ requests' = Append(requests,
                                          JsonRequest(ZipParams(zip_code, local.dt)))
                    /\ UNCHANGED <<outcome, result>>
               ELSE /\ Return(WithMessage(partial))
                    /\ local' = [local EXCEPT !.html = reply.page, !.acc = partial]
                    /\ UNCHANGED requests
    /\ UNCHANGED <<op, arg>>

\* lines 373-393 and 359-367: _fetch_json comes back inside
\* _fetch_theater_via_api ("except Exception: return None"), and
\* _parse_theater_page runs to its end
Reply_theater_json(reply) ==
    /\ pc = "ts_json"
    /\ replies' = Append(replies, reply)
    /\ IF Failed(reply) \/ reply.shape = "notjson"
       THEN Return(WithMessage(local.acc))
       ELSE IF NoTheaters(reply) THEN Return(WithMessage(local.acc))
       ELSE IF reply.shape = "list" THEN Raise
       ELSE Return(_simplify_theater(
                       SelectTheater(reply.data["theaters"], local.url)))
    /\ UNCHANGED <<op, arg, local, requests>>

(***************************************************************************)
(* get_movie_details.                                                      *)
(***************************************************************************)
MovieSuffix == <<"/", "movie-overview">>

\* lines 415-421
NormalizeMovieUrl(movie_url) ==
    LET s1 == RStripSlash(Strip(movie_url))
        s2 == IF StartsWithHttp(s1) THEN AfterHost(s1) ELSE s1
        s3 == IF s2 # <<>> /\ s2[1] = "/" THEN s2 ELSE <<"/">> \o s2
    IN IF ~Contains(s3, MovieSuffix) /\ ~Contains(s3, <<"/", "movie-times">>)
       THEN s3 \o MovieSuffix ELSE s3

\* d[k] = v
Put(d, k, v) == [x \in DOMAIN d \cup {k} |-> IF x = k THEN v ELSE d[x]]

Texts(els) == [i \in 1..Len(els) |-> GetText(els[i])]

TitleSelectors ==
    <<"h1.subnav__title", ".movie-details__title", ".hero-text__title",
      ".mop-detail-header__title", "title">>
RatingSelectors ==
    <<".movie-details__rating", ".mop-detail-header__badge",
      ".hero-text__rating", ".mop-ratings-row__badge">>
RuntimeSelectors ==
    <<".movie-details__runtime", ".mop-detail-header__meta", ".hero-text__runtime">>
SynopsisSelectors ==
    <<".movie-details__synopsis", ".mop-detail-header__synopsis",
      "#movie-detail-synopsis", ".js-mop-synopsis">>
CastSelectors ==
    {".movie-details__cast a", ".mop-detail-header__cast a", ".movie-cast__actor-name"}
DirectorSelectors == <<".movie-details__director", ".movie-cast__director">>
GenreSelectors == {".movie-details__genre a", ".mop-detail-header__genre a"}
PosterSelectors ==
    <<".movie-details__poster img", ".hero-image img",
      ".mop-detail-header__poster img">>

\* lines 438-502: the fields found by selectors
MoviePartial(page, url) ==
    LET One(group) == SelectOne(page.elems, group)
        title_el == One(TitleSelectors)
        title_tag == One(<<"title">>)
        r0 == ("url" :> url
               @@ "title" :> IF title_el # NoElement THEN GetText(title_el)
                             ELSE IF title_tag # NoElement THEN GetText(title_tag)
                             ELSE <<"Unknown">>)
        Opt(r, key, group) ==
            IF One(group) # NoElement THEN Put(r, key, GetText(One(group))) ELSE r
        r1 == Opt(r0, "rating", RatingSelectors)
        r2 == Opt(r1, "runtime", RuntimeSelectors)
        r3 == Opt(r2, "synopsis", SynopsisSelectors)
        cast_els == Select(page.elems, CastSelectors)
        r4 == IF cast_els # <<>> THEN Put(r3, "cast", Texts(cast_els)) ELSE r3
        r5 == Opt(r4, "director", DirectorSelectors)
        genre_els == Select(page.elems, GenreSelectors)
        r6 == IF genre_els # <<>> THEN Put(r5, "genres", Texts(genre_els)) ELSE r5
        poster_el == One(PosterSelectors)
    IN IF poster_el # NoElement
       THEN Put(r6, "poster", IF Truthy(poster_el.src) THEN poster_el.src
                              ELSE poster_el.datasrc)
       ELSE r6

\* truth value of a JSON value
JTruthy(j) ==
    CASE j.t = "null" -> FALSE
      [] j.t = "num" -> TRUE
      [] j.t = "dict" -> DOMAIN j.v # {}
      [] OTHER -> Len(j.v) > 0

\* ", ".join(names)
RECURSIVE Join(_)
Join(names) ==
    IF names = <<>> THEN <<>>
    ELSE IF Len(names) = 1 THEN names[1]
    ELSE names[1] \o <<", ">> \o Join(Tail(names))

\* the name of each dict among the items, d.get("name", default)
DictNames(items, default) ==
    LET dicts == SelectSeq(items, LAMBDA a : a.t = "dict")
    IN [i \in 1..Len(dicts) |-> Get(dicts[i].v, "name", default)]

\* lines 527-534; raised: str.join met a name that is not a text
ApplyDirector(r, ld) ==
    LET directors == Get(ld, "director", JNull) IN
    IF ~JTruthy(directors) THEN [acc |-> r, raised |-> FALSE]
    ELSE IF directors.t = "list" THEN
        LET names == DictNames(directors.v, <<>>) IN
        IF \E i \in 1..Len(names) : names[i] = None
        THEN [acc |-> r, raised |-> TRUE]
        ELSE [acc |-> Put(r, "director", Join(names)), raised |-> FALSE]
    ELSE IF directors.t = "dict"
    THEN [acc |-> Put(r, "director", Get(directors.v, "name", None)),
          raised |-> FALSE]
    ELSE [acc |-> r, raised |-> FALSE]

\* lines 535-540; raised: the value cannot be iterated.  Iterating a text
\* or a dict yields no dict, so the list is empty
ApplyCast(r, ld) ==
    LET actor == Get(ld, "actor", JNull) IN
    IF ~JTruthy(actor) THEN [acc |-> r, raised |-> FALSE]
    ELSE IF actor.t = "num" THEN [acc |-> r, raised |-> TRUE]
    ELSE IF actor.t = "list"
    THEN [acc |-> Put(r, "cast", DictNames(actor.v, <<>>)), raised |-> FALSE]
    ELSE [acc |-> Put(r, "cast", <<>>), raised |-> FALSE]

\* line 511
ApplyTitle(r, ld) == Put(r, "title", Get(ld, "name", Get(r, "title", None)))

\* lines 518-522
ApplyGenres(r, ld) ==
    LET genre == Get(ld, "genre", JNull) IN
    IF JTruthy(genre)
    THEN Put(r, "genres", IF genre.t = "list" THEN genre.v ELSE <<genre.v>>)
    ELSE r

\* lines 511-540 for one Movie block ld: the assignments in order, up to
\* the first that raises
ApplyMovieBlock(r, ld) ==
    LET Copy(x, key, from) ==
            IF Truthy(Get(ld, from, None)) THEN Put(x, key, ld[from]) ELSE x
        r1 == ApplyTitle(r, ld)
        r2 == Copy(r1, "synopsis", "description")
        r3 == Copy(r2, "runtime", "duration")
        r4 == Copy(r3, "rating", "contentRating")
        r5 == ApplyGenres(r4, ld)
        r6 == Copy(r5, "poster", "image")
        r7 == Copy(r6, "release_date", "datePublished")
        r8 == ApplyDirector(r7, ld)
    IN IF r8.raised THEN r8 ELSE ApplyCast(r8.acc, ld)

\* line 510
IsMovieBlock(block) ==
    block.shape = "dict" /\ Get(block.d, "@type", None) = <<"Movie">>

\* lines 414-426: up to the call of _fetch_html
Call_get_movie_details(movie_url) ==
    /\ pc = "idle"
    /\ pc' = "md_html"
    /\ op' = "get_movie_details"
    /\ arg' = [ArgInit EXCEPT !.id = movie_url]
    /\ LET slug == NormalizeMovieUrl(movie_url)
           url == FANDANGO_BASE \o slug
       IN /\ local' = [LocalInit EXCEPT !.slug = slug, !.url = url]
          /\ requests' = Append(requests, HtmlRequest(url))
    /\ UNCHANGED <<replies, outcome, result>>

\* lines 426-506: _fetch_html comes back; _parse_movie_page runs up to the
\* loop over the linked-data blocks
Reply_movie_html(reply) ==
    /\ pc = "md_html"
    /\ replies' = Append(replies, reply)
    /\ IF Failed(reply)
       THEN /\ Return(("error" :> ErrorMessage(reply) @@ "url" :> local.url))
            /\ UNCHANGED local
       ELSE LET partial == MoviePartial(reply.page, local.url) IN
            /\ local' = [local EXCEPT !.html = reply.page, !.acc = partial, !.i = 1]
            /\ IF reply.page.ld = <<>> THEN Return(partial)
               ELSE pc' = "md_ld" /\ UNCHANGED <<outcome, result>>
    /\ UNCHANGED <<op, arg, requests>>

\* lines 506-545: one turn of the loop over the linked-data blocks, and the
\* return when the loop ends
LdStep ==
    /\ pc = "md_ld"
    /\ LET block == local.html.ld[local.i]
           applied == IF IsMovieBlock(block)
                      THEN ApplyMovieBlock(local.acc, block.d)
                      ELSE [acc |-> local.acc, raised |-> FALSE]
           break == IsMovieBlock(block) /\ ~applied.raised
       IN /\ local' = [local EXCEPT !.acc = applied.acc, !.i = local.i + 1]
          /\ IF break \/ local.i = Len(local.html.ld)
             THEN Return(applied.acc)
             ELSE UNCHANGED <<pc, outcome, result>>
    /\ UNCHANGED <<op, arg, requests, replies>>

(***************************************************************************)
(* _simplify_movie applied to one movie object.                            *)
(***************************************************************************)
Call_simplify_movie(movie) ==
    /\ pc = "idle"
    /\ op' = "_simplify_movie"
    /\ arg' = [ArgInit EXCEPT !.x = movie]
    /\ Return(_simplify_movie(movie))
    /\ UNCHANGED <<local, requests, replies>>

\* the invocation is over; the next one starts from nothing
Finish ==
    /\ pc = "done"
    /\ pc' = "idle"
    /\ op' = "none"
    /\ arg' = ArgInit
    /\ local' = LocalInit
    /\ requests' = <<>>
    /\ replies' = <<>>
    /\ outcome' = "pending"
    /\ result' = EmptyDict

Next ==
    \/ \E a \in ShowtimesArgs, page \in 1..MaxPage :
          Call_get_showtimes(a[1], a[2], page)
    \/ \E reply \in FetchFailures \cup JsonReplies : Reply_get_showtimes(reply)
    \/ \E a \in TheaterArgs : Call_get_theater_showtimes(a[1], a[2])
    \/ \E reply \in FetchFailures \cup TheaterHtmlReplies : Reply_theater_html(reply)
    \/ \E reply \in FetchFailures \cup JsonReplies : Reply_theater_json(reply)
    \/ \E id \in MovieIds : Call_get_movie_details(id)
    \/ \E reply \in FetchFailures \cup MovieHtmlReplies : Reply_movie_html(reply)
    \/ LdStep
    \/ \E movie \in SampleMovies : Call_simplify_movie(movie)
    \/ Finish

Spec == Init /\ [][Next]_vars

(***************************************************************************)
(* Properties.                                                             *)
(***************************************************************************)
EntryOps == {"get_showtimes", "get_theater_showtimes", "get_movie_details"}

Done(o) == pc = "done" /\ op = o

\* C1 (as claimed): whatever the remote source answers, an entry operation
\* that has ended has returned an object; no exception has left it.
C1_NeverRaises ==
    (pc = "done" /\ op \in EntryOps) => outcome = "returned"

\* the message the claim gives for a failed fetch
ClaimedMessage(reply) ==
    IF reply.kind = "http_error"
    THEN <<"HTTP ">> \o IntToStr(reply.code) \o <<": ">> \o reply.reason
    ELSE <<"Request failed: ">> \o reply.message

\* the error record the claim gives for a failed fetch
IsErrorRecord(reply) ==
    /\ outcome = "returned"
    /\ DOMAIN result = (IF op = "get_movie_details" THEN {"error", "url"}
                        ELSE {"error"})
    /\ result["error"] = ClaimedMessage(reply)
    /\ op = "get_movie_details" => result["url"] = requests[1].url

PartialKeys == {"url", "date", "name", "message"}

ZipOnPage(page) == DOMAIN page.keys \cap {"postalCode", "zipCode", "zip"} # {}

\* C3: no fetch is retried.  get_showtimes and get_movie_details issue
\* exactly one request; get_theater_showtimes issues the HTML request and
\* then at most one JSON request, only after the HTML request succeeded and
\* the page held a postal code; after a failed request no request follows.
C3_NoRetry ==
    (op \in EntryOps) =>
        /\ Len(replies) <= Len(requests)
        /\ pc = "done" => Len(replies) = Len(requests)
        /\ \A i \in 1..Len(replies) : Failed(replies[i]) => Len(requests) = i
        /\ op = "get_showtimes" =>
              Len(requests) = 1 /\ requests[1].kind = "json"
        /\ op = "get_movie_details" =>
              Len(requests) = 1 /\ requests[1].kind = "html"
        /\ op = "get_theater_showtimes" =>
              /\ Len(requests) \in {1, 2}
              /\ requests[1].kind = "html"
              /\ Len(requests) = 2 =>
                    /\ requests[2].kind = "json"
                    /\ replies[1].kind = "ok"
                    /\ ZipOnPage(replies[1].page)

\* a get_theater_showtimes that issued both requests has ended
C3_Witness ==
    /\ Done("get_theater_showtimes")
    /\ Len(requests) = 2
    /\ replies[2].kind = "ok"

\* the theater the claim selects for the slug of the requested identifier
ClaimedTheater(theaters, slug) ==
    LET Url(i) == Lower(Get(theaters[i], "theaterPageUrl", <<>>))
        Matching == {i \in 1..Len(theaters) : Contains(Url(i), Lower(slug))}
    IN IF Matching = {} THEN theaters[1]
       ELSE theaters[CHOOSE i \in Matching : \A j \in Matching : i <= j]

\* C4: in get_theater_showtimes, when the page held a postal code and the
\* JSON reply has a non-empty theaters list, the result is the simplified
\* first theater whose detail-page URL contains the slug of the requested
\* identifier (case-insensitively), or the simplified first theater when
\* none does; when the page held no postal code, the result is the partial
\* record (url, date, name if extracted) with the message and no theater
\* data.
C4_TheaterSelection ==
    (Done("get_theater_showtimes") /\ replies[1].kind = "ok") =>
        /\ (/\ Len(replies) = 2
            /\ replies[2].kind = "ok"
            /\ replies[2].shape = "dict"
            /\ Get(replies[2].data, "theaters", <<>>) # <<>>) =>
              \A f \in Forms, sl \in Slugs, d \in Decorations :
                  arg.id = MkId(f, sl, <<"/", "theater-page">>, d) =>
                      /\ outcome = "returned"
                      /\ result = _simplify_theater(
                                      ClaimedTheater(replies[2].data["theaters"], sl))
        /\ ~ZipOnPage(replies[1].page) =>
              /\ outcome = "returned"
              /\ Len(requests) = 1
              /\ {"url", "date", "message"} \subseteq DOMAIN result
              /\ DOMAIN result \subseteq PartialKeys
              /\ result["url"] = requests[1].url
              /\ result["date"] = local.dt
              /\ result["message"] # <<>>

\* the theater returned is the second of the list: the first one's URL does
\* not contain the slug, the second one's does
C4_Witness ==
    /\ Done("get_theater_showtimes")
    /\ Len(replies) = 2
    /\ replies[2].kind = "ok"
    /\ replies[2].shape = "dict"
    /\ Len(Get(replies[2].data, "theaters", <<>>)) = 2
    /\ arg.id = MkId("url+suffix", <<"x">>, <<"/", "theater-page">>, "slash+spaces")
    /\ result["id"] = replies[2].data["theaters"][2]["id"]
    /\ result["id"] # replies[2].data["theaters"][1]["id"]

\* C5: when the JSON fetch of get_showtimes succeeded and the payload has no
\* theaters key or an empty theaters list, the result is the no-results
\* summary: theater_count 0, no theaters, a non-empty message, the caller's
\* location and the normalized date, and no error key.
C5_NoResultsSummary ==
    (/\ Done("get_showtimes")
     /\ replies[1].kind = "ok"
     /\ replies[1].shape = "dict"
     /\ ("theaters" \notin DOMAIN replies[1].data
         \/ replies[1].data["theaters"] = <<>>)) =>
        /\ outcome = "returned"
        /\ DOMAIN result = {"location", "date", "theater_count", "theaters", "message"}
        /\ result["theater_count"] = 0
        /\ result["theaters"] = <<>>
        /\ result["message"] # <<>>
        /\ result["location"] = arg.location
        /\ result["date"] = requests[1].params["date"]

\* a no-results summary for a location given with surrounding spaces and a
\* payload without a theaters key
C5_Witness ==
    /\ Done("get_showtimes")
    /\ replies[1].kind = "ok"
    /\ replies[1].shape = "dict"
    /\ "theaters" \notin DOMAIN replies[1].data
    /\ arg.location # Strip(arg.location)
    /\ "message" \in DOMAIN result

AllDigits(s) == \A i \in 1..Len(s) : s[i] \in Digits

\* five digits, optionally followed by "-" and four digits
IsZip(s) ==
    \/ Len(s) = 5 /\ AllDigits(s)
    \/ Len(s) = 10 /\ AllDigits(SubSeq(s, 1, 5)) /\ s[6] = "-"
                   /\ AllDigits(SubSeq(s, 7, 10))

HasComma(s) == \E i \in 1..Len(s) : s[i] = ","

\* the query parameters that come from the location
LocationParams == [k \in DOMAIN local.params \ {"date", "page"} |-> local.params[k]]

\* C6: the classification of a location is total and selects one variant:
\* after trimming, five digits with an optional -NNNN give ZipCode with that
\* exact string; otherwise a string with a comma gives CityState, split at
\* the first comma, both parts trimmed; otherwise CityOnly with the trimmed
\* string and an empty state.
C6_LocationClassification ==
    (op = "get_showtimes") =>
        LET t == Strip(arg.location) IN
        /\ DOMAIN LocationParams \in {{"zipCode"}, {"city", "state"}}
        /\ IsZip(t) => LocationParams = [k \in {"zipCode"} |-> t]
        /\ (~IsZip(t) /\ HasComma(t)) =>
              \E i \in 1..Len(t) :
                  /\ t[i] = ","
                  /\ ~HasComma(SubSeq(t, 1, i - 1))
                  /\ LocationParams =
                        [city |-> Strip(SubSeq(t, 1, i - 1)),
                         state |-> Strip(SubSeq(t, i + 1, Len(t)))]
        /\ (~IsZip(t) /\ ~HasComma(t)) =>
              LocationParams = [city |-> t, state |-> <<>>]

\* a location with two commas, given with surrounding spaces, was classified
C6_Witness ==
    /\ op = "get_showtimes"
    /\ arg.location = <<" ", "a", ",", "b", ",", "c", " ", " ">>
    /\ local.params["state"] = <<"b", ",", "c">>

Num2(s, i) == 10 * DigitVal(s[i]) + DigitVal(s[i + 1])

\* a calendar date written YYYY-MM-DD
IsIsoDate(s) ==
    /\ Len(s) = 10
    /\ \A i \in {1, 2, 3, 4, 6, 7, 9, 10} : s[i] \in Digits
    /\ s[5] = "-" /\ s[8] = "-"
    /\ LET y == 1000 * DigitVal(s[1]) + 100 * DigitVal(s[2]) + Num2(s, 3)
           m == Num2(s, 6)
           d == Num2(s, 9)
       IN /\ y >= 1
          /\ m \in 1..12
          /\ d >= 1
          /\ d <= (IF m = 2 THEN (IF IsLeap(y) THEN 29 ELSE 28)
                   ELSE IF m \in {4, 6, 9, 11} THEN 30 ELSE 31)

\* C7 (as claimed): date normalization is valid-or-defaulted: an absent or
\* empty date and a string that is not a valid YYYY-MM-DD date give today's
\* date, a valid YYYY-MM-DD date is kept, and so the date sent to the remote
\* source is always a valid YYYY-MM-DD date.
C7_DateValidOrDefaulted ==
    (op \in {"get_showtimes", "get_theater_showtimes"}) =>
        /\ IsIsoDate(local.dt)
        /\ local.dt = (IF arg.date # None /\ IsIsoDate(arg.date)
                       THEN arg.date ELSE Today)
        /\ op = "get_showtimes" => requests[1].params["date"] = local.dt

\* the suffix of a variant's labels as the claim gives it: " (<format>)"
\* when the variant has a format label (a non-empty filmFormatHeader) other
\* than "Standard"
ClaimedSuffix(variant) ==
    IF /\ "filmFormatHeader" \in DOMAIN variant
       /\ variant["filmFormatHeader"] # <<>>
       /\ variant["filmFormatHeader"] # <<"Standard">>
    THEN <<" (">> \o variant["filmFormatHeader"] \o <<")">>
    ELSE <<>>

\* the labels of the showtimes sts of one amenity group
RECURSIVE GroupLabels(_, _)
GroupLabels(sts, suffix) ==
    IF sts = <<>> THEN <<>>
    ELSE <<_simplify_showtime(Head(sts)).time \o suffix>>
         \o GroupLabels(Tail(sts), suffix)

RECURSIVE VariantLabels(_, _)
VariantLabels(groups, suffix) ==
    IF groups = <<>> THEN <<>>
    ELSE GroupLabels(Get(Head(groups), "showtimes", <<>>), suffix)
         \o VariantLabels(Tail(groups), suffix)

RECURSIVE MovieLabels(_)
MovieLabels(variants) ==
    IF variants = <<>> THEN <<>>
    ELSE VariantLabels(Get(Head(variants), "amenityGroups", <<>>),
                       ClaimedSuffix(Head(variants)))
         \o MovieLabels(Tail(variants))

\* C9: the flattened showtimes of a movie hold one label per showtime of its
\* variants, in encounter order (variant, amenity group, showtime); a label
\* is the showtime's time, followed by " (<format>)" exactly when the
\* variant has a format label other than "Standard".
C9_FlattenedLabels ==
    Done("_simplify_movie") =>
        result["showtimes"] = MovieLabels(Get(arg.x, "variants", <<>>))

\* a movie with a Standard variant and an IMAX variant was simplified: the
\* first label has no suffix, the last one ends in " (IMAX)"
C9_Witness ==
    /\ Done("_simplify_movie")
    /\ Len(Get(arg.x, "variants", <<>>)) = 2
    /\ Get(arg.x["variants"][1], "filmFormatHeader", <<>>) = <<"Standard">>
    /\ Get(arg.x["variants"][2], "filmFormatHeader", <<>>) = <<"IMAX">>
    /\ Len(result["showtimes"]) = 6
    /\ result["showtimes"][1] = <<"7", "p">>
    /\ result["showtimes"][6] = <<" (", "IMAX", ")">>

\* the number of atoms of s equal to a
Count(s, a) == Cardinality({i \in 1..Len(s) : s[i] = a})

\* C8: the bare slug, the path form and the full-URL form of one theater
\* identifier, with or without the suffix, surrounding whitespace or a
\* trailing slash, all normalize to /<slug>/theater-page, with a single
\* leading slash and the suffix once; normalizing that path again leaves it
\* unchanged.  The same holds for movie identifiers with /movie-overview.
C8_IdentifierNormalization ==
    /\ (op = "get_theater_showtimes") =>
          \A f \in Forms, sl \in Slugs, d \in Decorations :
              arg.id = MkId(f, sl, <<"/", "theater-page">>, d) =>
                  /\ local.slug = <<"/">> \o sl \o <<"/", "theater-page">>
                  /\ local.slug[2] # "/"
                  /\ Count(local.slug, "theater-page") = 1
                  /\ NormalizeTheaterId(local.slug) = local.slug
                  /\ requests[1].url =
                        <<"https://www.", "fandango.com">> \o local.slug
                        \o <<"?date=">> \o local.dt
    /\ (op = "get_movie_details") =>
          \A f \in Forms, sl \in Slugs, d \in Decorations :
              arg.id = MkId(f, sl, <<"/", "movie-overview">>, d) =>
                  /\ local.slug = <<"/">> \o sl \o <<"/", "movie-overview">>
                  /\ local.slug[2] # "/"
                  /\ Count(local.slug, "movie-overview") = 1
                  /\ NormalizeMovieUrl(local.slug) = local.slug
                  /\ requests[1].url = <<"https://www.", "fandango.com">> \o local.slug

\* a theater identifier given as a full URL with the suffix, a trailing
\* slash and surrounding spaces was normalized
C8_Witness ==
    /\ op = "get_theater_showtimes"
    /\ arg.id = <<" ", "https://www.", "fandango.com", "/", "Y", "/",
                  "theater-page", "/", " ">>
    /\ local.slug = <<"/", "Y", "/", "theater-page">>

\* a linked-data block that parses and is typed Movie
ClaimedMovieBlock(block) ==
    /\ block.shape = "dict"
    /\ "@type" \in DOMAIN block.d
    /\ block.d["@type"] = <<"Movie">>

\* the block carries a text under key k
CarriesText(d, k) == k \in DOMAIN d /\ d[k] # <<>> /\ d[k] # None

\* the block carries a value under key k
Carries(d, k) == k \in DOMAIN d /\ JTruthy(d[k])

\* every director and actor name of the block is a text, and its actors
\* are a list
WellShaped(d) ==
    /\ ("director" \in DOMAIN d /\ d["director"].t = "list") =>
          \A i \in 1..Len(d["director"].v) :
              d["director"].v[i].t = "dict" =>
                  Get(d["director"].v[i].v, "name", <<>>) # None
    /\ "actor" \in DOMAIN d => d["actor"].t = "list"

\* the director a block names: one person's name, the names of several
\* joined with ", ", or the name given as a text
ClaimedDirector(j) ==
    CASE j.t = "dict" -> Get(j.v, "name", None)
      [] j.t = "list" -> Join(DictNames(j.v, <<>>))
      [] OTHER -> j.v

\* C10 (as claimed): in get_movie_details, when the page has a linked-data
\* block that parses and is typed Movie, every one of title, synopsis,
\* runtime, rating, genres, poster, release date, director and cast that
\* the block carries is the value of the result, whatever the selectors
\* found; blocks before it that do not parse are passed over.
C10_LinkedDataOverrides ==
    (Done("get_movie_details") /\ replies[1].kind = "ok") =>
        LET ld == replies[1].page.ld
            Movies == {i \in 1..Len(ld) : ClaimedMovieBlock(ld[i])}
        IN Movies # {} =>
            LET d == ld[CHOOSE i \in Movies : \A j \in Movies : i <= j].d
                Is(key, value) == key \in DOMAIN result /\ result[key] = value
            IN WellShaped(d) =>
                /\ outcome = "returned"
                /\ "name" \in DOMAIN d => Is("title", d["name"])
                /\ CarriesText(d, "description") => Is("synopsis", d["description"])
                /\ CarriesText(d, "duration") => Is("runtime", d["duration"])
                /\ CarriesText(d, "contentRating") => Is("rating", d["contentRating"])
                /\ CarriesText(d, "image") => Is("poster", d["image"])
                /\ CarriesText(d, "datePublished") =>
                      Is("release_date", d["datePublished"])
                /\ Carries(d, "genre") =>
                      Is("genres", IF d["genre"].t = "list" THEN d["genre"].v
                                   ELSE <<d["genre"].v>>)
                /\ Carries(d, "director") =>
                      Is("director", ClaimedDirector(d["director"]))
                /\ Carries(d, "actor") =>
                      Is("cast", DictNames(d["actor"].v, <<>>))

\* the time of a raw showtime as the three-step fallback gives it: the
\* nested local time when that field is present, else the flat date-time
\* when that field is present, else the empty text
ClaimedTime(st) ==
    IF /\ "ticketingDate" \in DOMAIN st
       /\ st["ticketingDate"].t = "dict"
       /\ "localTime" \in DOMAIN st["ticketingDate"].v
    THEN st["ticketingDate"].v["localTime"]
    ELSE IF "dateTime" \in DOMAIN st THEN st["dateTime"]
    ELSE <<>>

\* the raw showtimes of a raw variant, in encounter order
RawShowtimes(variant) ==
    LET ags == Get(variant, "amenityGroups", <<>>)
    IN Flatten([i \in 1..Len(ags) |-> Get(ags[i], "showtimes", <<>>)])

\* C11 (as claimed): the time of every simplified showtime is the nested
\* ticketing-date local time when that field is present, else the flat
\* date-time, else the empty text; a showtime with a ticketing-date object
\* that has no local time gets its flat date-time.
C11_TimeFallback ==
    Done("_simplify_movie") =>
        LET raw == Get(arg.x, "variants", <<>>)
        IN \A i \in 1..Len(raw) :
              LET sts == RawShowtimes(raw[i])
              IN /\ Len(result["variants"][i].showtimes) = Len(sts)
                 /\ \A j \in 1..Len(sts) :
                       result["variants"][i].showtimes[j].time
                           = ClaimedTime(sts[j])

\* the element a prioritized selector list gives: the selectors are tried
\* in their listed order, and the first one that matches any element of the
\* document supplies its first match, wherever the elements sit
RECURSIVE PriorityOne(_, _)
PriorityOne(elems, group) ==
    IF group = <<>> THEN NoElement
    ELSE IF SelectOne(elems, <<Head(group)>>) # NoElement
         THEN SelectOne(elems, <<Head(group)>>)
         ELSE PriorityOne(elems, Tail(group))

\* the title element as the claim gives it: a specific selector by
\* priority, the document's <title> only when none of them matches
ClaimedTitleElement(elems, specific) ==
    IF PriorityOne(elems, specific) # NoElement
    THEN PriorityOne(elems, specific)
    ELSE SelectOne(elems, <<"title">>)

\* the theater name made from an element's text (suffixes cut)
NameOf(el) ==
    LET name == CutAt(CutAt(GetText(el), "Movie Showtimes"), "|")
    IN IF name = <<>> THEN GetText(el) ELSE name

\* C12 (as claimed): in the HTML pipeline the title or name comes from the
\* first selector, in listed priority order, that matches an element of the
\* page, independent of where the elements sit in the document, and from
\* the <title> text only when no specific selector matches.
C12_SelectorPriority ==
    /\ (Done("get_movie_details") /\ replies[1].kind = "ok"
            /\ replies[1].page.ld = <<>>) =>
          LET el == ClaimedTitleElement(replies[1].page.elems,
                        SubSeq(TitleSelectors, 1, Len(TitleSelectors) - 1))
          IN result["title"] = IF el = NoElement THEN <<"Unknown">>
                               ELSE GetText(el)
    /\ (Done("get_theater_showtimes") /\ replies[1].kind = "ok"
            /\ outcome = "returned" /\ "message" \in DOMAIN result) =>
          LET el == ClaimedTitleElement(replies[1].page.elems,
                        <<"h1.subnav__title", ".theaterDetailHeader__name">>)
          IN IF el = NoElement THEN "name" \notin DOMAIN result
             ELSE "name" \in DOMAIN result /\ result["name"] = NameOf(el)

\* C13 (as claimed): in the structured-data pass of get_movie_details the
\* overrides of one result all come from a single linked-data block: the
\* result is the selector-based record with the first Movie block whose
\* processing succeeds applied to it, or that record unchanged when no
\* block succeeds; a block that fails, at parsing or while its fields are
\* applied, leaves no trace, and no block after the applied one counts.
C13_SingleBlockOverrides ==
    (Done("get_movie_details") /\ replies[1].kind = "ok") =>
        LET ld == replies[1].page.ld
            partial == MoviePartial(replies[1].page, local.url)
            Good == {i \in 1..Len(ld) :
                        /\ IsMovieBlock(ld[i])
                        /\ ~ApplyMovieBlock(partial, ld[i].d).raised}
        IN /\ outcome = "returned"
           /\ result = IF Good = {} THEN partial
                       ELSE ApplyMovieBlock(partial,
                                ld[CHOOSE i \in Good : \A j \in Good : i <= j].d).acc

====
